---- MODULE Spec2Model ----
(***************************************************************************)
(* Model of src/network.py: the Network class.  The constructor cuts the   *)
(* performance's piano roll (midi_in.beat_roll) into windows X and targets *)
(* y and builds the encoder-decoder training model; train, save and        *)
(* load_training act on the constructed object.                            *)
(*                                                                         *)
(* numpy arrays are records [shape, data]; data is a sequence of windows,  *)
(* a window a sequence of rows, a row a sequence of cells.  Python index i *)
(* is position i + 1 of a sequence.                                        *)
(***************************************************************************)
EXTENDS Integers, Sequences, FiniteSets, TLC

\* ---------------------------------------------------------------- bounds
MaxBeatsInWindow == 2
MaxRes == 2
MaxTpb == 2
MaxTicks == 6
MaxSlices == 6
MaxNoteRange == 2
MaxWeight == 1

\* ------------------------------------------------- values of the program
Hidden == 128

NoFile == <<>>
Unset == [shape |-> <<>>, data |-> <<>>]
NoModel == [arch |-> <<>>, weights |-> 0]

\* The abstract parameter vectors a trained unit can hold.
Weights == 0..MaxWeight

\* model.h5 is a writable path holding no file at first; other.h5 is a
\* read-only file written by a Network of another window length.
Filenames == {"model.h5", "other.h5"}
Writable == {"model.h5"}

VARIABLES midi_in, beats_in_window, phase, time_step, N, X, y,
          training_model, files, raised, lastCall, reads, saved

vars == <<midi_in, beats_in_window, phase, time_step, N, X, y,
          training_model, files, raised, lastCall, reads, saved>>

\* ----------------------------------------------------------- the inputs
RowKinds == {"rest", "cluster", "odd"}

Row(w, kind) ==
    [r \in 1..w |-> CASE kind = "rest" -> 0
                      [] kind = "cluster" -> 1
                      [] OTHER -> r % 2]

RowSet(w) == {Row(w, k) : k \in RowKinds}

Min(a, b) == IF a < b THEN a ELSE b

\* floor(a / b) for a >= 0, b > 0
FloorDiv(a, b) == a \div b

Metadata ==
    [res : 1..MaxRes, tpb : 1..MaxTpb, total_ticks : 0..MaxTicks,
     note_range : 1..MaxNoteRange]

MidiIn(md, roll) ==
    [beat_roll |-> roll, res |-> md.res, tpb |-> md.tpb,
     total_ticks |-> md.total_ticks, note_range |-> md.note_range]

\* T of the data model: total_ticks / (ticks_per_beat / slices_per_beat)
SlicesOf(md) == FloorDiv(md.total_ticks * md.res, md.tpb)

\* The roll agrees with the declared metadata.
ValidPerformance(m) ==
    /\ (m.total_ticks * m.res) % m.tpb = 0
    /\ Len(m.beat_roll) = SlicesOf(m)
    /\ \A t \in 1..Len(m.beat_roll) : Len(m.beat_roll[t]) = m.note_range

UniformRoll(t, w, kind) == [s \in 1..t |-> Row(w, kind)]

\* Every roll of the declared shape, for the metadata that declare a whole
\* number of slices.
ValidInputs ==
    UNION {{MidiIn(md, roll) : roll \in [1..SlicesOf(md) -> RowSet(md.note_range)]} :
           md \in {d \in Metadata : (d.total_ticks * d.res) % d.tpb = 0
                                    /\ SlicesOf(d) <= MaxSlices}}

\* Rolls of any shape, one row repeated.
UniformInputs ==
    UNION {{MidiIn(md, UniformRoll(t, w, k)) :
              t \in 0..MaxSlices, w \in 1..MaxNoteRange, k \in RowKinds} :
           md \in Metadata}

\* Rolls of the declared shape or of one row or one column, every cell set.
LifecycleInputs ==
    UNION {{MidiIn(md, UniformRoll(t, w, "cluster")) :
              t \in {1, Min(SlicesOf(md), MaxSlices)}, w \in {1, md.note_range}} :
           md \in Metadata}

\* ------------------------------------------------------------- __init__
TimeStep(bw, res) == bw * res

\* floor((total_ticks / tpb) / beats_in_window) - 1; for non-negative
\* integers the floor of the quotient of quotients is the integer quotient
\* by the product.
NumWindowsNoDrop(m, bw) == FloorDiv(m.total_ticks, m.tpb * bw)
NumWindowsOfTicks(m, bw) == FloorDiv(m.total_ticks, bw) - 1
NumWindows(m, bw) == FloorDiv(m.total_ticks, m.tpb * bw) - 1

ShapeSwapped(n, ts, r) == <<n, r, ts>>
WindowShape(n, ts, r) == <<n, ts, r>>

\* np.zeros(shape=...)
Zeros(shape) ==
    [shape |-> shape,
     data |-> [i \in 1..shape[1] |-> [t \in 1..shape[2] |-> [r \in 1..shape[3] |-> 0]]]]

\* seq[a:b] of Python for 0 <= a <= b: stops at the end of seq.
Slice(seq, a, b) == SubSeq(seq, Min(a, Len(seq)) + 1, Min(b, Len(seq)))

BeatStartNext(i, ts) == (i + 1) * ts
BeatStart(i, ts) == i * ts

YRowSame(i) == i
YRow(i) == i - 1

\* numpy assigns src to a (ts, r) window when each dimension of src is the
\* window's or 1 (broadcasting), and raises ValueError otherwise.
CanBroadcast(src, ts, r) ==
    /\ Len(src) \in {1, ts}
    /\ \A t \in 1..Len(src) : Len(src[t]) \in {1, r}

Broadcast(src, ts, r) ==
    [t \in 1..ts |->
        [c \in 1..r |->
            LET row == src[IF Len(src) = 1 THEN 1 ELSE t]
            IN  row[IF Len(row) = 1 THEN 1 ELSE c]]]

\* arr[i] = src
SetWindow(arr, i, src) ==
    [arr EXCEPT !.data[i + 1] = Broadcast(src, arr.shape[2], arr.shape[3])]

\* One pass of the loop body for index i; st is the object under
\* construction with the exception raised so far.
LoopBody(st, m, ts, i) ==
    LET r == m.note_range
        beat_start == BeatStart(i, ts)
        xsrc == Slice(m.beat_roll, beat_start, beat_start + ts)
        ysrc == Slice(m.beat_roll, beat_start + ts, beat_start + ts * 2)
        xread == [target |-> "X", index |-> i, lo |-> beat_start,
                  hi |-> beat_start + ts]
        yread == [target |-> "y", index |-> YRow(i), lo |-> beat_start + ts,
                  hi |-> beat_start + ts * 2]
        afterX == IF CanBroadcast(xsrc, ts, r)
                  THEN [st EXCEPT !.X = SetWindow(st.X, i, xsrc),
                                  !.reads = @ \cup {xread}]
                  ELSE [st EXCEPT !.raised = "ValueError",
                                  !.reads = @ \cup {xread}]
    IN  IF afterX.raised # "none" \/ ~(i > 0) THEN afterX
        ELSE IF CanBroadcast(ysrc, ts, r)
             THEN [afterX EXCEPT !.y = SetWindow(afterX.y, YRow(i), ysrc),
                                 !.reads = @ \cup {yread}]
             ELSE [afterX EXCEPT !.raised = "ValueError",
                                 !.reads = @ \cup {yread}]

RECURSIVE Loop(_, _, _, _, _)
\* for i in range(i, n)
Loop(st, m, ts, n, i) ==
    IF i >= n \/ st.raised # "none" THEN st
    ELSE Loop(LoopBody(st, m, ts, i), m, ts, n, i + 1)

\* The window extraction of the constructor: time_step, N, X, y, and the
\* exception that ended it, if one did.
Extract(m, bw) ==
    LET ts == TimeStep(bw, m.res)
        n == NumWindows(m, bw)
        base == [time_step |-> ts, N |-> n, X |-> Unset, y |-> Unset,
                 reads |-> {}, raised |-> "none"]
    IN  IF n < 0
        THEN [base EXCEPT !.raised = "ValueError"]
        ELSE Loop([base EXCEPT !.X = Zeros(WindowShape(n, ts, m.note_range)),
                               !.y = Zeros(WindowShape(n, ts, m.note_range))],
                  m, ts, n, 0)

\* The encoder-decoder graph: Input(shape=(time_step, note_range)), LSTMs
\* of width hidden.
Architecture(ts, r) == <<ts, r, Hidden>>

Construct ==
    /\ phase = "new"
    /\ LET e == Extract(midi_in, beats_in_window)
       IN  /\ time_step' = e.time_step
           /\ N' = e.N
           /\ X' = e.X
           /\ y' = e.y
           /\ reads' = e.reads
           /\ raised' = e.raised
           /\ IF e.raised = "none"
              THEN /\ phase' = "constructed"
                   /\ \E w \in Weights :
                        training_model' =
                            [arch |-> Architecture(e.time_step, midi_in.note_range),
                             weights |-> w]
              ELSE /\ phase' = "failed"
                   /\ training_model' = training_model
    /\ lastCall' = [op |-> "__init__", filename |-> "", unit_before |-> training_model]
    /\ UNCHANGED <<midi_in, beats_in_window, files, saved>>

\* ---------------------------------------------------------------- train
\* fit([X, X], y): the unit's inputs must have X's window shape.
Fits(model, x) == model.arch[1] = x.shape[2] /\ model.arch[2] = x.shape[3]

Train ==
    /\ phase = "constructed"
    /\ lastCall' = [op |-> "train", filename |-> "", unit_before |-> training_model]
    /\ \/ /\ Fits(training_model, X)
          /\ N >= 1
          /\ \E w \in Weights : training_model' = [training_model EXCEPT !.weights = w]
          /\ raised' = "none"
       \/ /\ ~Fits(training_model, X)
          /\ training_model' = training_model
          /\ raised' = "ValueError"
       \/ /\ Fits(training_model, X)
          /\ N = 0
          /\ training_model' = training_model
          /\ raised' \in {"none", "ValueError"}
    /\ UNCHANGED <<midi_in, beats_in_window, phase, time_step, N, X, y, files,
                   reads, saved>>

\* ------------------------------------------------- save / load_training
\* Model.save writes the architecture description and the parameters.
Serialize(model) == <<"keras", model.arch, model.weights>>

\* load_model rebuilds the unit the file describes.
Deserialize(blob) == [arch |-> blob[2], weights |-> blob[3]]

Save(filename) ==
    /\ phase = "constructed"
    /\ lastCall' = [op |-> "save", filename |-> filename, unit_before |-> training_model]
    /\ IF filename \in Writable
       THEN /\ files' = [files EXCEPT ![filename] = Serialize(training_model)]
            /\ saved' = [saved EXCEPT ![filename] = training_model]
            /\ raised' = "none"
       ELSE /\ UNCHANGED <<files, saved>>
            /\ raised' = "OSError"
    /\ UNCHANGED <<midi_in, beats_in_window, phase, time_step, N, X, y,
                   training_model, reads>>

LoadDropped(current, blob) == current
\* self.training_model = load_model(filename)
Loaded(current, blob) == Deserialize(blob)

LoadTraining(filename) ==
    /\ phase = "constructed"
    /\ lastCall' = [op |-> "load_training", filename |-> filename,
                     unit_before |-> training_model]
    /\ IF files[filename] = NoFile
       THEN /\ training_model' = training_model
            /\ raised' = "OSError"
       ELSE /\ training_model' = Loaded(training_model, files[filename])
            /\ raised' = "none"
    /\ UNCHANGED <<midi_in, beats_in_window, phase, time_step, N, X, y, files,
                   reads, saved>>

SaveAny == \E f \in Filenames : Save(f)
LoadTrainingAny == \E f \in Filenames : LoadTraining(f)

\* ------------------------------------------------------- specifications
\* The unit other.h5 holds: one of a window longer than any this model
\* constructs.
OtherModel == [arch |-> Architecture(MaxBeatsInWindow * MaxRes + 1, MaxNoteRange),
               weights |-> 0]

InitFields ==
    /\ beats_in_window \in 1..MaxBeatsInWindow
    /\ phase = "new"
    /\ time_step = 0
    /\ N = 0
    /\ X = Unset
    /\ y = Unset
    /\ training_model = NoModel
    /\ files = [f \in Filenames |->
                  IF f = "other.h5" THEN Serialize(OtherModel) ELSE NoFile]
    /\ raised = "none"
    /\ lastCall = [op |-> "none", filename |-> "", unit_before |-> NoModel]
    /\ reads = {}
    /\ saved = [f \in Filenames |-> NoModel]

Init == midi_in \in LifecycleInputs /\ InitFields

Next == Construct \/ Train \/ SaveAny \/ LoadTrainingAny

Spec == Init /\ [][Next]_vars

\* The window extraction alone, over every roll content.
InitExtract == midi_in \in (ValidInputs \cup UniformInputs) /\ InitFields

NextExtract == Construct

SpecExtract == InitExtract /\ [][NextExtract]_vars

\* ------------------------------------------------------------ properties
Roll == midi_in.beat_roll
Constructed == phase = "constructed"
CalledFile == lastCall.filename

\* The rows of the roll the constructor cuts into input windows.
Window(i) == Slice(Roll, i * time_step, (i + 1) * time_step)

AllZero(window) ==
    \A t \in 1..Len(window) : \A r \in 1..Len(window[t]) : window[t][r] = 0

\* C1: after construction with N >= 2, from a roll that agrees with its
\* metadata, every target row y[i], i in [0, N-1), is the roll's window
\* following X[i]'s, and so equals X[i+1].
C1_TargetIsNextWindow ==
    (Constructed /\ ValidPerformance(midi_in) /\ N >= 2) =>
        \A i \in 0..(N - 2) :
            /\ y.data[i + 1] = Window(i + 1)
            /\ y.data[i + 1] = X.data[i + 2]

\* C2: a performance of at least 2 * beats_in_window beats gives
\* N = floor(total_beats / beats_in_window) - 1, stated as the integer N
\* with (N + 1) windows of ticks <= total_ticks < (N + 2) windows of ticks,
\* and N >= 1.
C2_WindowCount ==
    (phase # "new" /\ midi_in.total_ticks >= 2 * beats_in_window * midi_in.tpb) =>
        /\ N >= 1
        /\ (N + 1) * beats_in_window * midi_in.tpb <= midi_in.total_ticks
        /\ midi_in.total_ticks < (N + 2) * beats_in_window * midi_in.tpb

\* A performance with a fractional number of windows and ticks_per_beat > 1.
C2_Witness ==
    /\ Constructed
    /\ N >= 1
    /\ midi_in.tpb > 1
    /\ midi_in.total_ticks % (beats_in_window * midi_in.tpb) # 0

\* C3: construction from a performance shorter than 2 * beats_in_window
\* beats ends in InsufficientDataError and yields no Network.
C3_ShortPerformanceRejected ==
    (phase # "new" /\ midi_in.total_ticks < 2 * beats_in_window * midi_in.tpb) =>
        /\ phase = "failed"
        /\ raised = "InsufficientDataError"

XReads == {r \in reads : r.target = "X"}

\* C4: after construction from a roll that agrees with its metadata, X[i]
\* is the roll's slice [i*time_step, (i+1)*time_step) for every i in
\* [0, N); the input windows do not
\* overlap, follow the performance's order and cover exactly
\* roll[0 : N*time_step], so window N is never an input.
C4_InputWindows ==
    (Constructed /\ ValidPerformance(midi_in)) =>
        /\ \A i \in 0..(N - 1) :
              /\ X.data[i + 1] = Window(i)
              /\ Len(X.data[i + 1]) = time_step
        /\ \A t \in 0..(N * time_step - 1) :
              X.data[(t \div time_step) + 1][(t % time_step) + 1] = Roll[t + 1]
        /\ \A r \in XReads : r.hi <= N * time_step
        /\ \A r1, r2 \in XReads : r1.index < r2.index => r1.hi <= r2.lo

C4_Witness ==
    /\ Constructed
    /\ ValidPerformance(midi_in)
    /\ N >= 2
    /\ time_step >= 2
    /\ X.data[1] # X.data[2]

\* C5: after construction with N >= 1 the last target row y[N-1] is all
\* zero, whatever the roll holds.
C5_LastTargetZero ==
    (Constructed /\ N >= 1) => AllZero(y.data[N])

\* Every cell of the roll is 1 and the loop assigned a target row.
C5_Witness ==
    /\ Constructed
    /\ ValidPerformance(midi_in)
    /\ N >= 2
    /\ \A t \in 1..Len(Roll) : Roll[t] = Row(midi_in.note_range, "cluster")
    /\ ~AllZero(y.data[1])
    /\ AllZero(y.data[N])

HasShape(arr, n, ts, r) ==
    /\ arr.shape = <<n, ts, r>>
    /\ Len(arr.data) = n
    /\ \A i \in 1..n :
          /\ Len(arr.data[i]) = ts
          /\ \A t \in 1..ts : Len(arr.data[i][t]) = r

\* C6: once construction has succeeded X and y have shape
\* (N, beats_in_window * resolution, note range), and train, save and
\* load_training leave it so.
C6_Shape ==
    Constructed =>
        /\ HasShape(X, N, beats_in_window * midi_in.res, midi_in.note_range)
        /\ HasShape(y, N, beats_in_window * midi_in.res, midi_in.note_range)

\* A load of the unit saved earlier, over a unit training had changed.
C6_Witness ==
    /\ Constructed
    /\ N >= 1
    /\ beats_in_window * midi_in.res # midi_in.note_range
    /\ lastCall.op = "load_training"
    /\ CalledFile = "model.h5"
    /\ raised = "none"
    /\ lastCall.unit_before # training_model

Unreadable(f) == files[f] = NoFile
Incompatible(f) ==
    /\ files[f] # NoFile
    /\ Deserialize(files[f]).arch # Architecture(time_step, midi_in.note_range)

\* C8: load_training of an unreadable source, or of a unit of another
\* architecture, fails with PersistenceError and leaves the controller's
\* unit as it was; save to an unwritable destination fails with
\* PersistenceError.
C8_PersistenceErrors ==
    /\ (lastCall.op = "load_training"
        /\ (Unreadable(CalledFile) \/ Incompatible(CalledFile))) =>
            /\ raised = "PersistenceError"
            /\ training_model = lastCall.unit_before
    /\ (lastCall.op = "save" /\ CalledFile \notin Writable) =>
            raised = "PersistenceError"

\* The roll disagrees with the metadata: a row of another width than the
\* note range, or too few rows for the N input windows.
Mismatch ==
    \/ \E t \in 1..Len(Roll) : Len(Roll[t]) # midi_in.note_range
    \/ Len(Roll) < N * time_step

\* C9: construction from a roll that disagrees with the declared metadata
\* ends in ShapeMismatchError: the roll is never accepted, and the mismatch
\* never waits for train.
C9_MismatchRejected ==
    (phase # "new" /\ N >= 1 /\ Mismatch) =>
        /\ phase = "failed"
        /\ raised = "ShapeMismatchError"

\* C10: for a roll of T = total_beats * resolution rows and N >= 1, every
\* slice the constructor reads (X's at each loop index, y's at each index
\* above 0) lies within rows [0, T), has exactly time_step rows, and ends
\* at or before floor(total_beats / beats_in_window) * time_step <= T.
C10_ReadsInBounds ==
    (phase # "new" /\ ValidPerformance(midi_in) /\ N >= 1) =>
        /\ \A i \in 0..(N - 1) : \E r \in XReads : r.index = i
        /\ \A i \in 1..(N - 1) : \E r \in reads : r.target = "y" /\ r.index = i - 1
        /\ \A r \in reads :
              /\ 0 <= r.lo
              /\ r.hi <= Len(Roll)
              /\ r.hi - r.lo = time_step
              /\ Len(Slice(Roll, r.lo, r.hi)) = time_step
              /\ r.hi <= FloorDiv(midi_in.total_ticks, midi_in.tpb * beats_in_window)
                            * time_step
        /\ FloorDiv(midi_in.total_ticks, midi_in.tpb * beats_in_window) * time_step
              <= Len(Roll)

\* The last target slice read ends at the roll's last row.
C10_Witness ==
    /\ Constructed
    /\ ValidPerformance(midi_in)
    /\ N >= 2
    /\ \E r \in reads : r.target = "y" /\ r.hi = Len(Roll)

====
